---------------------------- MODULE Spec2Model ----------------------------
(***************************************************************************)
(* Zeus MyAADE monitor (src/myaade_monitor_zeus.py): the deflection        *)
(* classifier analyze_deflection, the change detector of check_protocol,   *)
(* the SQLite ledgers (protocol_checks, alerts, monitor_runs) and the      *)
(* orchestration of run_check_cycle and start; and the e-mail integration  *)
(* (src/zeus_email_integration_v2.py): process_zeus_alert,                 *)
(* _get_recipients and send_email.                                         *)
(*                                                                         *)
(* Specifications:                                                         *)
(*   Spec          the monitor: start() with the creation of the driver,   *)
(*                 its login loop, the check cycles, the signal handler,   *)
(*                 browser and store failures;                             *)
(*   SpecFair      Spec in which a step that can be taken is eventually    *)
(*                 taken;                                                  *)
(*   SpecErrorPage the monitor against a portal that shows its own         *)
(*                 "ERROR: ..." banner;                                    *)
(*   SpecStore     check_protocol and _save_check alone, in two executions *)
(*                 side by side, with the wall clock as an input;          *)
(*   SpecClassify  the pure function analyze_deflection applied to every   *)
(*                 text up to MaxTextLen code points, under the shipped    *)
(*                 pattern table and under tables holding keywords that    *)
(*                 normalize to the empty string;                          *)
(*   SpecRoute     _get_recipients and process_zeus_alert applied to every *)
(*                 severity and alert;                                     *)
(*   SpecSend      send_email with its retry loop, and SpecSendFair.       *)
(* In Spec and SpecErrorPage the clock only advances.                      *)
(*                                                                         *)
(* Text is a sequence of code points.  Python's None is the value None.    *)
(***************************************************************************)
EXTENDS Naturals, Sequences, FiniteSets

\* ------------------------------------------------------------------ bounds
\* Longest text handed to analyze_deflection under SpecClassify.
MaxTextLen == 3

None == "None"

\* ------------------------------------------------------- code points, text
(***************************************************************************)
(* The reduced alphabet.  It keeps one member of every class of code point *)
(* that _norm treats differently: lowercase and uppercase Latin letters,   *)
(* plain Greek vowels, the same vowels precomposed with tonos (U+03AC,     *)
(* U+03AD, U+03AF), an uppercase Greek vowel with tonos (U+0386), the      *)
(* combining acute accent (U+0301, category Mn) and the space.             *)
(***************************************************************************)
LatinLower == {"f", "r", "n"}
LatinUpper == {"F"}
GreekPlain == {"alpha", "epsilon", "iota"}
GreekTonos == {"alpha_tonos", "epsilon_tonos", "iota_tonos"}
GreekUpperTonos == {"ALPHA_TONOS"}
CombiningMarks == {"ACUTE"}
Space == "SP"

CodePoints ==
    LatinLower \cup LatinUpper \cup GreekPlain \cup GreekTonos
        \cup GreekUpperTonos \cup CombiningMarks \cup {Space}

\* str.casefold() on one code point.
casefold(c) ==
    CASE c = "F" -> "f"
      [] c = "ALPHA_TONOS" -> "alpha_tonos"
      [] OTHER -> c

\* unicodedata.normalize("NFD", .) on one code point: the canonical
\* decomposition of a precomposed letter is its base letter followed by the
\* combining mark.
NFD(c) ==
    CASE c = "alpha_tonos" -> <<"alpha", "ACUTE">>
      [] c = "epsilon_tonos" -> <<"epsilon", "ACUTE">>
      [] c = "iota_tonos" -> <<"iota", "ACUTE">>
      [] c = "ALPHA_TONOS" -> <<"ALPHA", "ACUTE">>
      [] OTHER -> <<c>>

\* unicodedata.category(.)
category(c) ==
    CASE c \in CombiningMarks -> "Mn"
      [] c = Space -> "Zs"
      [] c \in LatinUpper \cup GreekUpperTonos \cup {"ALPHA"} -> "Lu"
      [] OTHER -> "Ll"

RECURSIVE decompose(_)
decompose(s) ==
    IF s = <<>> THEN <<>> ELSE NFD(casefold(Head(s))) \o decompose(Tail(s))

RECURSIVE drop_marks(_)
drop_marks(s) ==
    IF s = <<>> THEN <<>>
    ELSE IF category(Head(s)) # "Mn"
         THEN <<Head(s)>> \o drop_marks(Tail(s))
         ELSE drop_marks(Tail(s))

\* analyze_deflection._norm
norm(s) == drop_marks(decompose(s))

\* Python's `needle in haystack` on strings.
Contains(needle, haystack) ==
    /\ Len(needle) <= Len(haystack)
    /\ \E k \in 0..(Len(haystack) - Len(needle)) :
          SubSeq(haystack, k + 1, k + Len(needle)) = needle

\* ----------------------------------------------------------- pattern table
(***************************************************************************)
(* DEFLECTION_PATTERNS, in the order of the source, with each pattern's    *)
(* name, severity and description as written there.  Each keyword is       *)
(* abbreviated to two code points of the reduced alphabet: a Greek keyword *)
(* keeps an accented vowel (every keywords_el entry of the source carries  *)
(* a tonos), an English keyword is plain lowercase Latin, and one keyword  *)
(* per language carries a space where the source's do.  As in the source,  *)
(* no keyword of one pattern contains a keyword of another.                *)
(***************************************************************************)
DEFLECTION_PATTERNS ==
    << [name |-> "forwarded",
        keywords_el |-> << <<"alpha_tonos", "epsilon">>, <<"alpha_tonos", "SP">> >>,
        keywords_en |-> << <<"f", "r">>, <<"f", "SP">> >>,
        severity |-> "HIGH",
        description |-> "Protocol forwarded to another agency (deflection)"],
       [name |-> "under_review",
        keywords_el |-> << <<"epsilon_tonos", "alpha">> >>,
        keywords_en |-> << <<"r", "f">> >>,
        severity |-> "WATCH",
        description |-> "Generic 'under review' status (possible stalling)"],
       [name |-> "no_jurisdiction",
        keywords_el |-> << <<"alpha", "iota_tonos">> >>,
        keywords_en |-> << <<"f", "n">> >>,
        severity |-> "CRITICAL",
        description |-> "Agency claims no jurisdiction (hard deflection)"],
       [name |-> "responded",
        keywords_el |-> << <<"iota_tonos", "alpha">> >>,
        keywords_en |-> << <<"n", "f">> >>,
        severity |-> "CRITICAL",
        description |-> "Marked as 'answered' -- verify actual resolution"],
       [name |-> "archived",
        keywords_el |-> << <<"epsilon_tonos", "iota">> >>,
        keywords_en |-> << <<"r", "n">> >>,
        severity |-> "CRITICAL",
        description |-> "Protocol archived without resolution"],
       [name |-> "doy_peiraia_redirect",
        keywords_el |-> << <<"iota_tonos", "epsilon">>, <<"iota", "SP">> >>,
        keywords_en |-> << <<"n", "r">>, <<"n", "SP">> >>,
        severity |-> "CRITICAL",
        description |-> "DOY A' Peiraia deflection to DOY Katoikon Exoterikou"] >>

\* for keyword in pattern["keywords_el"] + pattern["keywords_en"]
keywords_of(pattern) == pattern.keywords_el \o pattern.keywords_en

\* The keyword test without the guard on a keyword that normalizes to the
\* empty string.
keyword_matches_unguarded(keyword, text_norm) ==
    Contains(norm(keyword), text_norm)

\* The keyword test with the keyword compared as spelled in the table.
keyword_matches_raw_keyword(keyword, text_norm) ==
    keyword # <<>> /\ Contains(keyword, text_norm)

\* norm_kw = _norm(keyword); if norm_kw and norm_kw in text_norm
keyword_matches(keyword, text_norm) ==
    LET norm_kw == norm(keyword)
    IN  norm_kw # <<>> /\ Contains(norm_kw, text_norm)

\* The inner loop: does any keyword of the list, from index j on, match.
RECURSIVE scan_keywords(_, _, _)
scan_keywords(keywords, j, text_norm) ==
    IF j > Len(keywords) THEN FALSE
    ELSE IF keyword_matches(keywords[j], text_norm) THEN TRUE
    ELSE scan_keywords(keywords, j + 1, text_norm)

NoClassification == <<None, None, None>>

\* The outer loop run from the last pattern to the first: the last matching
\* pattern wins.
RECURSIVE scan_patterns_last_wins(_, _, _)
scan_patterns_last_wins(table, i, text_norm) ==
    IF i > Len(table) THEN NoClassification
    ELSE LET rest == scan_patterns_last_wins(table, i + 1, text_norm)
         IN  IF rest # NoClassification THEN rest
             ELSE IF scan_keywords(keywords_of(table[i]), 1, text_norm)
                  THEN <<table[i].name, table[i].severity, table[i].description>>
                  ELSE NoClassification

\* The outer loop falling back to the table's last pattern when none matches.
RECURSIVE scan_patterns_default(_, _, _)
scan_patterns_default(table, i, text_norm) ==
    IF i > Len(table)
    THEN IF table = <<>> THEN NoClassification
         ELSE <<table[Len(table)].name, table[Len(table)].severity,
                table[Len(table)].description>>
    ELSE IF scan_keywords(keywords_of(table[i]), 1, text_norm)
         THEN <<table[i].name, table[i].severity, table[i].description>>
         ELSE scan_patterns_default(table, i + 1, text_norm)

\* The outer loop: the patterns in table order from index i on, returning at
\* the first pattern one of whose keywords matches; (None, None, None) when
\* the table is exhausted.
RECURSIVE scan_patterns(_, _, _)
scan_patterns(table, i, text_norm) ==
    IF i > Len(table) THEN NoClassification
    ELSE IF scan_keywords(keywords_of(table[i]), 1, text_norm)
         THEN <<table[i].name, table[i].severity, table[i].description>>
         ELSE scan_patterns(table, i + 1, text_norm)

\* analyze_deflection with the outer loop's order reversed.
analyze_deflection_last_wins(text, table) ==
    scan_patterns_last_wins(table, 1, norm(text))

\* analyze_deflection with a default classification instead of the triple of
\* None.
analyze_deflection_default(text, table) ==
    scan_patterns_default(table, 1, norm(text))

\* analyze_deflection(text), with the module global DEFLECTION_PATTERNS it
\* reads made a parameter.
analyze_deflection(text, table) == scan_patterns(table, 1, norm(text))

\* ------------------------------------------------------ monitor: constants
\* Config.MAX_RETRIES (its default)
MAX_RETRIES == 3

\* Config.TRACKED_PROTOCOLS: the list the cycle walks, in configuration order.
TRACKED_PROTOCOLS == <<"214142", "214143">>

\* Check cycles started in one run of start().
MaxCycles == 2
\* Operations of one run that raise: a check in which the browser (or the
\* read of the previous status) raises inside check_protocol, or a store
\* write that raises sqlite3.Error.  Two let every check of a cycle fail.
MaxFaults == 2
\* SpecStore: checks made by one execution, and the instants the wall clock
\* can show.
MaxStoreChecks == 2
MaxClock == 3

(***************************************************************************)
(* What the browser shows for one check: the raw page source and the       *)
(* joined text of the status elements (#searchResults td, .message-body,   *)
(* .msg-content).  PageOK and PageForwarded share their element text and   *)
(* differ in the raw source only.                                          *)
(***************************************************************************)
PageOK == [page_source |-> <<"r">>, elements |-> <<"r">>]
PageForwarded ==
    [page_source |-> <<"alpha_tonos", "epsilon">>, elements |-> <<"r">>]
Pages == {PageOK, PageForwarded}

\* A page whose first status element reads "ERROR: ..." (the portal's own
\* error banner), without any deflection keyword.
PageErrorBanner == [page_source |-> <<"n">>, elements |-> <<"ERROR:">>]
ErrorPages == {PageForwarded, PageErrorBanner}

\* Where a check may raise inside check_protocol's try block:
\*   navigate    driver.get / driver.page_source (lines 739-763), before the
\*               fingerprint is taken;
\*   previous    _get_previous_status (line 790), after the classification;
\*   screenshot  capture_screenshot's mkdir (line 299, outside its own try),
\*               after the change test.
BrowserFaults == {"navigate", "previous", "screenshot"}

\* combined_text[:500]
StatusTextMax == 500

\* f"ERROR: {str(e)[:200]}": the prefix "ERROR:" is one symbol of the text.
ErrorText == <<"ERROR:">>

\* status.status_text.startswith("ERROR:")
starts_with_error(status_text) ==
    Len(status_text) >= 1 /\ status_text[1] = "ERROR:"

RECURSIVE join(_)
join(s) == IF s = <<>> THEN "" ELSE Head(s) \o "," \o join(Tail(s))

\* hashlib.sha256(page_source.encode()).hexdigest(): a digest that differs
\* whenever the content differs (no collisions), never the empty string.
sha256(page_source) == "sha256:" \o join(page_source)

\* The fingerprint taken from the 500-character excerpt.
fingerprint_of_excerpt(page) ==
    sha256(IF Len(page.elements) <= StatusTextMax THEN page.elements
           ELSE SubSeq(page.elements, 1, StatusTextMax))

\* status.page_source_hash = sha256 of the full page_source
fingerprint(page) == sha256(page.page_source)

VARIABLES
    running,          \* self.running
    pc,               \* where start() / run_check_cycle stands
    retry_count,      \* start's retry_count
    logged_in,        \* a call of _login_taxisnet has returned True
    db_open,          \* self.db is open (shutdown closes it)
    protocol_checks,  \* table protocol_checks: rows in id order
    alerts,           \* table alerts: rows in id order
    monitor_runs,     \* table monitor_runs: rows in id order
    run_id,           \* run_check_cycle's run_id
    idx,              \* position of the for loop in TRACKED_PROTOCOLS
    status,           \* run_check_cycle's status (a ProtocolStatus)
    alerts_count,     \* run_check_cycle's alerts_count
    errors,           \* run_check_cycle's errors
    results,          \* len(results)
    now,              \* the UTC clock read by datetime.now(timezone.utc)
    outbox,           \* the calls of send_alerts, in order
    transport,        \* outcome of the send_alerts call of the step just
                      \* taken: "delivered" or "failed"; "idle" otherwise
    failed_checks,    \* history: checked_at of the checks that raised
    store_errors,     \* history: the store writes that raised
    faults,           \* history: operations that have raised so far
    portal,           \* the pages the portal may show to a check
    text,             \* SpecClassify: the argument of analyze_deflection
    table,            \* SpecClassify: the value of DEFLECTION_PATTERNS
    result,           \* SpecClassify: what analyze_deflection returned
    ledger,           \* SpecStore: table protocol_checks of one execution
    ledger2,          \* SpecStore: table protocol_checks of a second execution
    RECORD_EMAIL,     \* email: os.getenv('RECORD_EMAIL', ...)
    smtp_max_retries, \* email: self.smtp_max_retries
    smtp_retry_base_delay,  \* email: self.smtp_retry_base_delay, in seconds
    epc,              \* email: where the call in progress stands
    alert_data,       \* email: the argument of process_zeus_alert
    severity_in,      \* email: the argument of _get_recipients
    recipients,       \* email: what _get_recipients returned
    email_config,     \* email: what process_zeus_alert returned
    dry_run,          \* email: send_email's dry_run
    attempt,          \* email: send_email's loop variable
    smtp_log,         \* email: outcome of every SMTP attempt, in order
    sleeps,           \* email: the arguments of time.sleep, in order
    returned          \* email: what send_email returned

monitor_vars ==
    <<running, pc, retry_count, logged_in, db_open, protocol_checks, alerts,
      monitor_runs, run_id, idx, status, alerts_count, errors, results, now,
      outbox, transport, failed_checks, store_errors, faults>>

classify_vars == <<text, table, result>>

\* SpecStore: the two executions' tables.
store_vars == <<ledger, ledger2>>

\* ZeusEmailIntegration (src/zeus_email_integration_v2.py).
email_vars ==
    <<RECORD_EMAIL, smtp_max_retries, smtp_retry_base_delay, epc, alert_data,
      severity_in, recipients, email_config, dry_run, attempt, smtp_log,
      sleeps, returned>>

vars == <<monitor_vars, portal, classify_vars, store_vars, email_vars>>

\* ---------------------------------------------------------- data and store
\* ProtocolStatus(protocol_number=protocol_num): the dataclass defaults, with
\* checked_at read from the clock.  status_date, agency, subject,
\* response_text and the screenshot fields play no part in any decision and
\* are left out.
ProtocolStatus(protocol_num, checked_at) ==
    [protocol_number |-> protocol_num,
     status_text |-> <<>>,
     deflection_type |-> None,
     deflection_severity |-> None,
     page_source_hash |-> None,
     checked_at |-> checked_at,
     raw_html_length |-> 0,
     changed |-> FALSE]

NoStatus == ProtocolStatus(None, 0)

\* The query without its WHERE clause: the latest row of any protocol.
get_previous_status_any_protocol(rows, protocol_num) ==
    IF DOMAIN rows = {} THEN None
    ELSE LET k == CHOOSE k \in DOMAIN rows :
                     \A j \in DOMAIN rows : rows[j].checked_at <= rows[k].checked_at
         IN  rows[k].page_source_hash

\* _get_previous_status: SELECT page_source_hash FROM protocol_checks WHERE
\* protocol_number = ? ORDER BY checked_at DESC LIMIT 1; None without a row.
get_previous_status(rows, protocol_num) ==
    LET mine == {k \in DOMAIN rows : rows[k].protocol_number = protocol_num}
    IN  IF mine = {} THEN None
        ELSE LET k == CHOOSE k \in mine :
                         \A j \in mine : rows[j].checked_at <= rows[k].checked_at
             IN  rows[k].page_source_hash

\* The change test comparing without the truthiness test of prev_hash.
hash_changed_no_baseline_test(prev_hash, page_source_hash) ==
    prev_hash # page_source_hash

\* if prev_hash and prev_hash != status.page_source_hash
hash_changed(prev_hash, page_source_hash) ==
    /\ prev_hash # None
    /\ prev_hash # ""
    /\ prev_hash # page_source_hash

\* combined_text[:500]
excerpt(elements) ==
    IF Len(elements) <= StatusTextMax THEN elements
    ELSE SubSeq(elements, 1, StatusTextMax)

\* check_protocol(protocol_num) -> ProtocolStatus, for what the browser shows
\* (page) and where, if anywhere, the try block raises (fault); rows is the
\* protocol_checks table it reads.
check_protocol(protocol_num, checked_at, rows, page, fault) ==
    LET s0 == ProtocolStatus(protocol_num, checked_at)
        s1 == [s0 EXCEPT !.raw_html_length = Len(page.page_source),
                         !.page_source_hash = fingerprint(page)]
        s2 == [s1 EXCEPT !.status_text = excerpt(page.elements)]
        full_text == s2.status_text \o <<Space>> \o page.page_source
        defl == analyze_deflection(full_text, DEFLECTION_PATTERNS)
        s3 == IF defl[1] # None
              THEN [s2 EXCEPT !.deflection_type = defl[1],
                              !.deflection_severity = defl[2]]
              ELSE s2
        prev_hash == get_previous_status(rows, protocol_num)
        s4 == IF hash_changed(prev_hash, s3.page_source_hash)
              THEN [s3 EXCEPT !.changed = TRUE]
              ELSE s3
    IN  CASE fault = "none" -> s4
          [] fault = "navigate" -> [s0 EXCEPT !.status_text = ErrorText]
          [] fault = "previous" -> [s3 EXCEPT !.status_text = ErrorText]
          [] fault = "screenshot" -> [s4 EXCEPT !.status_text = ErrorText]

\* The row _save_check writes for a status: int(status.changed) and the rest
\* as given.
check_row(s) ==
    [protocol_number |-> s.protocol_number,
     status_text |-> s.status_text,
     deflection_type |-> s.deflection_type,
     deflection_severity |-> s.deflection_severity,
     page_source_hash |-> s.page_source_hash,
     checked_at |-> s.checked_at,
     raw_html_length |-> s.raw_html_length,
     changed |-> IF s.changed THEN 1 ELSE 0]

\* _save_check as INSERT OR REPLACE keyed by the protocol: the protocol's
\* latest row is overwritten.
save_check_replace(rows, s) ==
    LET mine == {k \in DOMAIN rows : rows[k].protocol_number = s.protocol_number}
    IN  IF mine = {} THEN Append(rows, check_row(s))
        ELSE LET k == CHOOSE k \in mine : \A j \in mine : j <= k
             IN  [rows EXCEPT ![k] = check_row(s)]

\* _save_check: INSERT INTO protocol_checks ... ; commit
save_check(rows, s) == Append(rows, check_row(s))

\* _save_alert whose insert is never committed: the table keeps no row.
save_alert_uncommitted(rows, protocol_num, alert_type, severity, message, created_at) ==
    rows

\* _save_alert: INSERT INTO alerts ... ; commit
save_alert(rows, protocol_num, alert_type, severity, message, created_at) ==
    Append(rows, [protocol_number |-> protocol_num,
                  alert_type |-> alert_type,
                  severity |-> severity,
                  message |-> message,
                  created_at |-> created_at])

\* ------------------------------------------------------- alert decision
\* The first rule firing on every snapshot.
status_change_rule_always(s) == TRUE

\* if status.changed:
status_change_rule(s) == s.changed

\* The second rule without its test of changed.
deflection_rule_ignores_changed(s) == s.deflection_type # None

\* The second rule without its test of the classification.
deflection_rule_ignores_type(s) == ~s.changed

\* if status.deflection_type and not status.changed:
deflection_rule(s) == s.deflection_type # None /\ ~s.changed

\* status.deflection_severity or "INFO"
status_change_severity(s) ==
    IF s.deflection_severity # None THEN s.deflection_severity ELSE "INFO"

\* msg of the status_change alert
status_change_message(s) ==
    IF s.deflection_type # None
    THEN <<"Protocol", s.protocol_number, "status CHANGED",
           "-- DEFLECTION:", s.deflection_type>>
    ELSE <<"Protocol", s.protocol_number, "status CHANGED">>

\* msg of the deflection alert
deflection_message(s) ==
    <<"Protocol", s.protocol_number, s.deflection_type, s.deflection_severity>>

\* send_alerts(message, severity): one entry per call, with the timestamp the
\* generic webhook's payload carries.
send_alerts(box, message, severity, timestamp) ==
    Append(box, [message |-> message, severity |-> severity,
                 timestamp |-> timestamp])

\* ------------------------------------------------------------------ Init
ClassifyIdle == text = <<>> /\ table = DEFLECTION_PATTERNS /\ result = <<>>

\* ZeusMonitor.__init__ and the head of start(): running is True, the
\* database is initialised and empty, the driver is about to be created.
MonitorInit ==
    /\ running = TRUE
    /\ pc = "create_driver"
    /\ retry_count = 0
    /\ logged_in = FALSE
    /\ db_open = TRUE
    /\ protocol_checks = <<>>
    /\ alerts = <<>>
    /\ monitor_runs = <<>>
    /\ run_id = 0
    /\ idx = 0
    /\ status = NoStatus
    /\ alerts_count = 0
    /\ errors = 0
    /\ results = 0
    /\ now = 1
    /\ outbox = <<>>
    /\ transport = "idle"
    /\ failed_checks = {}
    /\ store_errors = {}
    /\ faults = 0

StoreIdle == ledger = <<>> /\ ledger2 = <<>>

\* No ZeusEmailIntegration has been constructed.
EmailIdle ==
    /\ RECORD_EMAIL = None
    /\ smtp_max_retries = 0
    /\ smtp_retry_base_delay = 0
    /\ epc = "idle"
    /\ alert_data = None
    /\ severity_in = None
    /\ recipients = None
    /\ email_config = None
    /\ dry_run = TRUE
    /\ attempt = 0
    /\ smtp_log = <<>>
    /\ sleeps = <<>>
    /\ returned = None

Init == MonitorInit /\ portal = Pages /\ ClassifyIdle /\ StoreIdle /\ EmailIdle

\* --------------------------------------------------------------- start()
\* A handler that, besides clearing the flag, unwinds the cycle in progress
\* (as an exception raised from the handler would).
signal_handler_interrupts ==
    /\ pc \notin {"done", "raised"}
    /\ running
    /\ running' = FALSE
    /\ pc' = IF pc \in {"create_driver", "login", "after_login"} THEN pc ELSE "while"
    /\ transport' = "idle"
    /\ UNCHANGED <<retry_count, logged_in, db_open, protocol_checks,
                   alerts, monitor_runs, run_id, idx, status, alerts_count,
                   errors, results, now, outbox, failed_checks,
                   store_errors, faults, portal, classify_vars, store_vars,
                   email_vars>>

\* _handler(signum, frame): SIGINT or SIGTERM clears self.running.
signal_handler ==
    /\ pc \notin {"done", "raised"}
    /\ running
    /\ running' = FALSE
    /\ transport' = "idle"
    /\ UNCHANGED <<pc, retry_count, logged_in, db_open, protocol_checks,
                   alerts, monitor_runs, run_id, idx, status, alerts_count,
                   errors, results, now, outbox, failed_checks,
                   store_errors, faults, portal, classify_vars, store_vars,
                   email_vars>>

\* shutdown(): send_alerts("Zeus Monitor shutting down", "INFO"), quit the
\* driver, close the database.
shutdown(box) ==
    /\ \E t \in {"delivered", "failed"} : transport' = t
    /\ outbox' = send_alerts(box, <<"Zeus Monitor shutting down">>, "INFO", now)
    /\ now' = now + 1
    /\ db_open' = FALSE
    /\ pc' = "done"

\* self.driver = self._create_driver(): the driver is created, or
\* ChromeDriverManager().install() or webdriver.Chrome() raises and the
\* exception leaves start(), which has no handler around the call.
create_driver ==
    /\ pc = "create_driver"
    /\ \E created \in BOOLEAN : pc' = IF created THEN "login" ELSE "raised"
    /\ transport' = "idle"
    /\ UNCHANGED <<running, retry_count, logged_in, db_open, protocol_checks,
                   alerts, monitor_runs, run_id, idx, status, alerts_count,
                   errors, results, now, outbox, failed_checks,
                   store_errors, faults, portal, classify_vars, store_vars,
                   email_vars>>

\* A login loop that makes one more pass than MAX_RETRIES.
login_attempt_one_more ==
    /\ pc = "login"
    /\ retry_count <= MAX_RETRIES /\ running
    /\ \E ok \in BOOLEAN :
          IF ok
          THEN /\ logged_in' = TRUE
               /\ pc' = "after_login"
               /\ UNCHANGED retry_count
          ELSE /\ retry_count' = retry_count + 1
               /\ UNCHANGED <<logged_in, pc>>
    /\ transport' = "idle"
    /\ UNCHANGED <<running, db_open, protocol_checks, alerts, monitor_runs,
                   run_id, idx, status, alerts_count, errors, results, now,
                   outbox, failed_checks, store_errors,
                   faults, portal, classify_vars, store_vars,
                   email_vars>>

\* One pass of the login loop: while retry_count < MAX_RETRIES and
\* self.running: if self._login_taxisnet(): break; retry_count += 1; sleep.
login_attempt ==
    /\ pc = "login"
    /\ retry_count < MAX_RETRIES /\ running
    /\ \E ok \in BOOLEAN :
          IF ok
          THEN /\ logged_in' = TRUE
               /\ pc' = "after_login"
               /\ UNCHANGED retry_count
          ELSE /\ retry_count' = retry_count + 1
               /\ UNCHANGED <<logged_in, pc>>
    /\ transport' = "idle"
    /\ UNCHANGED <<running, db_open, protocol_checks, alerts, monitor_runs,
                   run_id, idx, status, alerts_count, errors, results, now,
                   outbox, failed_checks, store_errors,
                   faults, portal, classify_vars, store_vars,
                   email_vars>>

\* The login loop's condition is false: the loop is left.
login_loop_exit ==
    /\ pc = "login"
    /\ ~(retry_count < MAX_RETRIES /\ running)
    /\ pc' = "after_login"
    /\ transport' = "idle"
    /\ UNCHANGED <<running, retry_count, logged_in, db_open, protocol_checks,
                   alerts, monitor_runs, run_id, idx, status, alerts_count,
                   errors, results, now, outbox, failed_checks,
                   store_errors, faults, portal, classify_vars, store_vars,
                   email_vars>>

\* if retry_count >= MAX_RETRIES: the CRITICAL notification, shutdown, return.
login_failed ==
    /\ pc = "after_login"
    /\ retry_count >= MAX_RETRIES
    /\ shutdown(send_alerts(outbox, <<"Zeus Monitor FAILED to login">>,
                            "CRITICAL", now))
    /\ UNCHANGED <<running, retry_count, logged_in, protocol_checks, alerts,
                   monitor_runs, run_id, idx, status, alerts_count, errors,
                   results, failed_checks, store_errors, faults, portal, classify_vars, store_vars,
                   email_vars>>

\* send_alerts("Zeus Monitor ONLINE ...", "INFO"), then the monitoring loop.
\* retry_count is not read again and is cleared.
go_online ==
    /\ pc = "after_login"
    /\ retry_count < MAX_RETRIES
    /\ outbox' = send_alerts(outbox, <<"Zeus Monitor ONLINE">>, "INFO", now)
    /\ \E t \in {"delivered", "failed"} : transport' = t
    /\ now' = now + 1
    /\ retry_count' = 0
    /\ pc' = "while"
    /\ UNCHANGED <<running, logged_in, db_open, protocol_checks, alerts,
                   monitor_runs, run_id, idx, status, alerts_count, errors,
                   results, failed_checks, store_errors, faults, portal, classify_vars, store_vars,
                   email_vars>>

\* while self.running: ... self.run_check_cycle()
loop_enter ==
    /\ pc = "while"
    /\ running
    /\ Len(monitor_runs) < MaxCycles
    /\ pc' = "insert_run"
    /\ transport' = "idle"
    /\ UNCHANGED <<running, retry_count, logged_in, db_open, protocol_checks,
                   alerts, monitor_runs, run_id, idx, status, alerts_count,
                   errors, results, now, outbox, failed_checks,
                   store_errors, faults, portal, classify_vars, store_vars,
                   email_vars>>

\* The loop's condition is false: self.shutdown().
loop_exit ==
    /\ pc = "while"
    /\ ~running
    /\ shutdown(outbox)
    /\ UNCHANGED <<running, retry_count, logged_in, protocol_checks, alerts,
                   monitor_runs, run_id, idx, status, alerts_count, errors,
                   results, failed_checks, store_errors, faults, portal, classify_vars, store_vars,
                   email_vars>>

\* for _ in range(CHECK_INTERVAL): if not self.running: break; sleep(1)
sleep_interval ==
    /\ pc = "sleep"
    /\ pc' = "while"
    /\ transport' = "idle"
    /\ UNCHANGED <<running, retry_count, logged_in, db_open, protocol_checks,
                   alerts, monitor_runs, run_id, idx, status, alerts_count,
                   errors, results, now, outbox, failed_checks,
                   store_errors, faults, portal, classify_vars, store_vars,
                   email_vars>>

\* ------------------------------------------------------- run_check_cycle
\* cycle_start, results = [], alerts_count = 0, errors = 0, INSERT INTO
\* monitor_runs (started_at), run_id = lastrowid, commit.
insert_run ==
    /\ pc = "insert_run"
    /\ monitor_runs' = Append(monitor_runs,
                              [started_at |-> now,
                               completed_at |-> None,
                               protocols_checked |-> 0,
                               alerts_generated |-> 0,
                               errors |-> 0,
                               status |-> "running"])
    /\ run_id' = Len(monitor_runs) + 1
    /\ now' = now + 1
    /\ alerts_count' = 0
    /\ errors' = 0
    /\ results' = 0
    /\ idx' = 1
    /\ pc' = "for"
    /\ transport' = "idle"
    /\ UNCHANGED <<running, retry_count, logged_in, db_open, protocol_checks,
                   alerts, status, outbox, failed_checks,
                   store_errors, faults, portal, classify_vars, store_vars,
                   email_vars>>

\* for protocol_num in protocols: if not self.running: break;
\* status = self.check_protocol(protocol_num)
for_check_protocol ==
    /\ pc = "for"
    /\ idx <= Len(TRACKED_PROTOCOLS) /\ running
    /\ \E page \in portal :
          \E fault \in {"none"} \cup
                       (IF faults < MaxFaults THEN BrowserFaults ELSE {}) :
             /\ status' = check_protocol(TRACKED_PROTOCOLS[idx], now,
                                         protocol_checks, page, fault)
             /\ faults' = IF fault = "none" THEN faults ELSE faults + 1
             /\ failed_checks' =
                   IF fault = "none" THEN failed_checks
                   ELSE failed_checks \cup {now}
    /\ now' = now + 1
    /\ pc' = "save_check"
    /\ transport' = "idle"
    /\ UNCHANGED <<running, retry_count, logged_in, db_open, protocol_checks,
                   alerts, monitor_runs, run_id, idx, alerts_count, errors,
                   results, outbox, store_errors,
                   portal, classify_vars, store_vars,
                   email_vars>>

\* The for loop ends: the list is exhausted or self.running is False.
for_end ==
    /\ pc = "for"
    /\ ~(idx <= Len(TRACKED_PROTOCOLS) /\ running)
    /\ pc' = "update_run"
    /\ transport' = "idle"
    /\ UNCHANGED <<running, retry_count, logged_in, db_open, protocol_checks,
                   alerts, monitor_runs, run_id, idx, status, alerts_count,
                   errors, results, now, outbox, failed_checks,
                   store_errors, faults, portal, classify_vars, store_vars,
                   email_vars>>

\* self._save_check(status)
do_save_check ==
    /\ pc = "save_check"
    /\ protocol_checks' = save_check(protocol_checks, status)
    /\ pc' = "status_change"
    /\ transport' = "idle"
    /\ UNCHANGED <<running, retry_count, logged_in, db_open, alerts,
                   monitor_runs, run_id, idx, status, alerts_count, errors,
                   results, now, outbox, failed_checks,
                   store_errors, faults, portal, classify_vars, store_vars,
                   email_vars>>

\* if status.changed: msg = ...; self._save_alert(protocol_num,
\* "status_change", status.deflection_severity or "INFO", msg)
status_change_alert ==
    /\ pc = "status_change"
    /\ status_change_rule(status)
    /\ alerts' = save_alert(alerts, status.protocol_number, "status_change",
                            status_change_severity(status),
                            status_change_message(status), now)
    /\ now' = now + 1
    /\ pc' = "status_change_send"
    /\ transport' = "idle"
    /\ UNCHANGED <<running, retry_count, logged_in, db_open, protocol_checks,
                   monitor_runs, run_id, idx, status, alerts_count, errors,
                   results, outbox, failed_checks, store_errors,
                   faults, portal, classify_vars, store_vars,
                   email_vars>>

\* send_alerts(msg, status.deflection_severity or "INFO"); alerts_count += 1
status_change_send ==
    /\ pc = "status_change_send"
    /\ outbox' = send_alerts(outbox, status_change_message(status),
                             status_change_severity(status), now)
    /\ \E t \in {"delivered", "failed"} : transport' = t
    /\ now' = now + 1
    /\ alerts_count' = alerts_count + 1
    /\ pc' = "deflection"
    /\ UNCHANGED <<running, retry_count, logged_in, db_open, protocol_checks,
                   alerts, monitor_runs, run_id, idx, status, errors, results,
                   failed_checks, store_errors, faults,
                   portal, classify_vars, store_vars,
                   email_vars>>

\* status.changed is False: the first rule does not fire.
status_change_skip ==
    /\ pc = "status_change"
    /\ ~status_change_rule(status)
    /\ pc' = "deflection"
    /\ transport' = "idle"
    /\ UNCHANGED <<running, retry_count, logged_in, db_open, protocol_checks,
                   alerts, monitor_runs, run_id, idx, status, alerts_count,
                   errors, results, now, outbox, failed_checks,
                   store_errors, faults, portal, classify_vars, store_vars,
                   email_vars>>

\* if status.deflection_type and not status.changed: msg = ...;
\* self._save_alert(protocol_num, "deflection", status.deflection_severity, msg)
deflection_alert ==
    /\ pc = "deflection"
    /\ deflection_rule(status)
    /\ alerts' = save_alert(alerts, status.protocol_number, "deflection",
                            status.deflection_severity,
                            deflection_message(status), now)
    /\ now' = now + 1
    /\ pc' = "deflection_send"
    /\ transport' = "idle"
    /\ UNCHANGED <<running, retry_count, logged_in, db_open, protocol_checks,
                   monitor_runs, run_id, idx, status, alerts_count, errors,
                   results, outbox, failed_checks, store_errors,
                   faults, portal, classify_vars, store_vars,
                   email_vars>>

\* The second rule's notification without the increment of alerts_count.
deflection_send_uncounted ==
    /\ pc = "deflection_send"
    /\ outbox' = send_alerts(outbox, deflection_message(status),
                             status.deflection_severity, now)
    /\ \E t \in {"delivered", "failed"} : transport' = t
    /\ now' = now + 1
    /\ pc' = "tail"
    /\ UNCHANGED <<running, retry_count, logged_in, db_open, protocol_checks,
                   alerts, monitor_runs, run_id, idx, status, alerts_count,
                   errors, results, failed_checks, store_errors, faults,
                   portal, classify_vars, store_vars,
                   email_vars>>

\* send_alerts(msg, status.deflection_severity); alerts_count += 1
deflection_send ==
    /\ pc = "deflection_send"
    /\ outbox' = send_alerts(outbox, deflection_message(status),
                             status.deflection_severity, now)
    /\ \E t \in {"delivered", "failed"} : transport' = t
    /\ now' = now + 1
    /\ alerts_count' = alerts_count + 1
    /\ pc' = "tail"
    /\ UNCHANGED <<running, retry_count, logged_in, db_open, protocol_checks,
                   alerts, monitor_runs, run_id, idx, status, errors, results,
                   failed_checks, store_errors, faults,
                   portal, classify_vars, store_vars,
                   email_vars>>

\* The second rule does not fire.
deflection_skip ==
    /\ pc = "deflection"
    /\ ~deflection_rule(status)
    /\ pc' = "tail"
    /\ transport' = "idle"
    /\ UNCHANGED <<running, retry_count, logged_in, db_open, protocol_checks,
                   alerts, monitor_runs, run_id, idx, status, alerts_count,
                   errors, results, now, outbox, failed_checks,
                   store_errors, faults, portal, classify_vars, store_vars,
                   email_vars>>

\* The loop's tail leaving the for loop after a failed check.
loop_tail_break_on_error ==
    /\ pc = "tail"
    /\ errors' = IF starts_with_error(status.status_text)
                 THEN errors + 1 ELSE errors
    /\ results' = results + 1
    /\ idx' = IF starts_with_error(status.status_text)
              THEN Len(TRACKED_PROTOCOLS) + 1 ELSE idx + 1
    /\ pc' = "for"
    /\ transport' = "idle"
    /\ UNCHANGED <<running, retry_count, logged_in, db_open, protocol_checks,
                   alerts, monitor_runs, run_id, status, alerts_count, now,
                   outbox, failed_checks, store_errors,
                   faults, portal, classify_vars, store_vars,
                   email_vars>>

\* if status.status_text.startswith("ERROR:"): errors += 1;
\* results.append(asdict(status)); the loop moves to the next protocol.
loop_tail ==
    /\ pc = "tail"
    /\ errors' = IF starts_with_error(status.status_text)
                 THEN errors + 1 ELSE errors
    /\ results' = results + 1
    /\ idx' = idx + 1
    /\ pc' = "for"
    /\ transport' = "idle"
    /\ UNCHANGED <<running, retry_count, logged_in, db_open, protocol_checks,
                   alerts, monitor_runs, run_id, status, alerts_count, now,
                   outbox, failed_checks, store_errors,
                   faults, portal, classify_vars, store_vars,
                   email_vars>>

\* UPDATE monitor_runs SET completed_at, protocols_checked, alerts_generated,
\* errors, status = 'completed' WHERE id = run_id; commit; return.  The
\* frame's locals are gone after the return.
update_run ==
    /\ pc = "update_run"
    /\ monitor_runs' =
          [monitor_runs EXCEPT ![run_id] =
              [@ EXCEPT !.completed_at = now,
                        !.protocols_checked = results,
                        !.alerts_generated = alerts_count,
                        !.errors = errors,
                        !.status = "completed"]]
    /\ now' = now + 1
    /\ run_id' = 0 /\ idx' = 0 /\ status' = NoStatus
    /\ alerts_count' = 0 /\ errors' = 0 /\ results' = 0
    /\ pc' = "sleep"
    /\ transport' = "idle"
    /\ UNCHANGED <<running, retry_count, logged_in, db_open, protocol_checks,
                   alerts, outbox, failed_checks, store_errors,
                   faults, portal, classify_vars, store_vars,
                   email_vars>>

\* The store write run_check_cycle is about to make, if any.
pending_write ==
    CASE pc = "insert_run" -> "insert_run"
      [] pc = "save_check" -> "save_check"
      [] pc = "status_change" /\ status_change_rule(status) -> "save_alert"
      [] pc = "deflection" /\ deflection_rule(status) -> "save_alert"
      [] pc = "update_run" -> "update_run"
      [] OTHER -> None

\* What the history keeps of a store write that raised: the write, the
\* position, the status being handled, and the run and the instant of the
\* failure (0 when no run row exists yet).
store_error(op) ==
    [op |-> op, pc |-> pc, check |-> status.checked_at, run |-> run_id,
     at |-> IF run_id = 0 THEN 0 ELSE now]

\* A failing store write after which the run's row is closed all the same.
store_write_fails_closes_run ==
    /\ pending_write # None
    /\ faults < MaxFaults
    /\ faults' = faults + 1
    /\ store_errors' = store_errors \cup
          {store_error(pending_write)}
    /\ monitor_runs' =
          IF run_id = 0 THEN monitor_runs
          ELSE [monitor_runs EXCEPT ![run_id] =
                   [@ EXCEPT !.completed_at = now, !.status = "completed"]]
    /\ run_id' = 0 /\ idx' = 0 /\ status' = NoStatus
    /\ alerts_count' = 0 /\ errors' = 0 /\ results' = 0
    /\ pc' = "while"
    /\ transport' = "idle"
    /\ UNCHANGED <<running, retry_count, logged_in, db_open, protocol_checks,
                   alerts, now, outbox, failed_checks, portal, classify_vars, store_vars,
                   email_vars>>

\* A store write raises (sqlite3.Error) and writes nothing: the exception
\* leaves run_check_cycle and reaches start()'s `except Exception`, which
\* logs, sleeps 30 s and goes back to the head of the while loop.
store_write_fails ==
    /\ pending_write # None
    /\ faults < MaxFaults
    /\ faults' = faults + 1
    /\ store_errors' = store_errors \cup
          {store_error(pending_write)}
    /\ run_id' = 0 /\ idx' = 0 /\ status' = NoStatus
    /\ alerts_count' = 0 /\ errors' = 0 /\ results' = 0
    /\ pc' = "while"
    /\ transport' = "idle"
    /\ UNCHANGED <<running, retry_count, logged_in, db_open, protocol_checks,
                   alerts, monitor_runs, now, outbox, failed_checks, portal, classify_vars, store_vars,
                   email_vars>>

Next ==
    \/ signal_handler
    \/ create_driver
    \/ login_attempt
    \/ login_loop_exit
    \/ login_failed
    \/ go_online
    \/ loop_enter
    \/ loop_exit
    \/ sleep_interval
    \/ insert_run
    \/ for_check_protocol
    \/ for_end
    \/ do_save_check
    \/ status_change_alert
    \/ status_change_send
    \/ status_change_skip
    \/ deflection_alert
    \/ deflection_send
    \/ deflection_skip
    \/ loop_tail
    \/ update_run
    \/ store_write_fails

Spec == Init /\ [][Next]_vars

\* The monitor when every blocking step (browser, store, sleep) returns:
\* start() runs in one thread, so a step that can be taken is eventually
\* taken.
SpecFair == Spec /\ WF_vars(Next)

\* The monitor against a portal that shows its own "ERROR: ..." banner.
InitErrorPage ==
    MonitorInit /\ portal = ErrorPages /\ ClassifyIdle /\ StoreIdle /\ EmailIdle

SpecErrorPage == InitErrorPage /\ [][Next]_vars

\* ----------------------------------------------------------- SpecClassify
\* Every text of at most MaxTextLen code points.
Texts == UNION {[1..n -> CodePoints] : n \in 0..MaxTextLen}

\* DEFLECTION_PATTERNS with the empty keyword added in front of pattern i's
\* keywords_el and a keyword made of a lone combining accent added to its
\* keywords_en: both normalize to the empty string.
with_empty_keywords(i) ==
    [DEFLECTION_PATTERNS EXCEPT
        ![i].keywords_el = << <<>> >> \o @,
        ![i].keywords_en = Append(@, <<"ACUTE">>)]

PatternTables ==
    {DEFLECTION_PATTERNS, with_empty_keywords(1),
     with_empty_keywords(Len(DEFLECTION_PATTERNS))}

InitClassify ==
    /\ MonitorInit
    /\ portal = Pages
    /\ text \in Texts
    /\ table \in PatternTables
    /\ result = <<>>
    /\ StoreIdle
    /\ EmailIdle

\* result = analyze_deflection(text)
classify ==
    /\ result = <<>>
    /\ result' = analyze_deflection(text, table)
    /\ UNCHANGED <<text, table, portal, monitor_vars, store_vars, email_vars>>

NextClassify == classify

SpecClassify == InitClassify /\ [][NextClassify]_vars

\* -------------------------------------------------------------- SpecStore
(***************************************************************************)
(* The change detector against the store, without the rest of the cycle:   *)
(* check_protocol followed by _save_check, in two executions side by side. *)
(* checked_at is what datetime.now(timezone.utc) returns when the          *)
(* ProtocolStatus is created: a reading of the host's wall clock, which    *)
(* the program does not control and which can be set back between two      *)
(* checks (clock synchronisation, an operator, a restored machine).  A     *)
(* reading is any instant of 1..MaxClock not read before in the execution. *)
(* Instants stand for their isoformat() text: in UTC the fields have fixed *)
(* width and the text without microseconds sorts before the same second    *)
(* with microseconds ("+" < "."), so the TEXT order of SQLite is the order *)
(* of the instants.                                                        *)
(***************************************************************************)
Instants == 1..MaxClock

\* The instants an execution has not read yet.
Unread(rows) == Instants \ {rows[k].checked_at : k \in DOMAIN rows}

\* Where a check of SpecStore may raise: before the fingerprint is taken,
\* which leaves a snapshot without fingerprint in the table (the failures
\* after the fingerprint are exercised by Spec).
StoreFaults == {"navigate"}

\* Both executions check protocol p, see the same page, fail (or not) at
\* the same place and read the same instant; each saves its snapshot.
store_check ==
    /\ Len(ledger) < MaxStoreChecks
    /\ \E p \in {TRACKED_PROTOCOLS[i] : i \in DOMAIN TRACKED_PROTOCOLS} :
       \E page \in portal :
       \E fault \in {"none"} \cup StoreFaults :
       \E t \in Unread(ledger) \cap Unread(ledger2) :
          /\ ledger' = save_check(ledger,
                          check_protocol(p, t, ledger, page, fault))
          /\ ledger2' = save_check(ledger2,
                          check_protocol(p, t, ledger2, page, fault))
    /\ UNCHANGED <<monitor_vars, portal, classify_vars, email_vars>>

\* The second execution alone checks protocol q: from here on the two
\* executions differ in the snapshots of q.
store_check_elsewhere ==
    /\ Len(ledger2) <= Len(ledger)
    /\ \E q \in {TRACKED_PROTOCOLS[i] : i \in DOMAIN TRACKED_PROTOCOLS} :
       \E page \in portal :
       \E fault \in {"none"} \cup StoreFaults :
       \E t \in Unread(ledger) \cap Unread(ledger2) :
          ledger2' = save_check(ledger2,
                        check_protocol(q, t, ledger2, page, fault))
    /\ UNCHANGED <<ledger, monitor_vars, portal, classify_vars, email_vars>>

InitStore ==
    MonitorInit /\ portal = Pages /\ ClassifyIdle /\ StoreIdle /\ EmailIdle

NextStore == store_check \/ store_check_elsewhere

SpecStore == InitStore /\ [][NextStore]_vars

\* ================================================================ claims
\* ------------------------------------------------- reading the ledgers
Range(f) == {f[x] : x \in DOMAIN f}

\* The snapshots of the same protocol persisted before row k.
PriorRows(k) ==
    {j \in DOMAIN protocol_checks :
        /\ j < k
        /\ protocol_checks[j].protocol_number = protocol_checks[k].protocol_number}

\* The most recent snapshot of the same protocol persisted before row k.
PriorRow(k) == CHOOSE j \in PriorRows(k) : \A i \in PriorRows(k) : i <= j

\* Timestamp t lies after row k's check and before any later row's check:
\* it was read while run_check_cycle was handling row k's snapshot.
During(t, k) ==
    /\ t > protocol_checks[k].checked_at
    /\ \A j \in DOMAIN protocol_checks :
          protocol_checks[j].checked_at > protocol_checks[k].checked_at
             => t < protocol_checks[j].checked_at

\* The alert rows persisted for snapshot k.
AlertsOf(k) ==
    {a \in DOMAIN alerts :
        /\ alerts[a].protocol_number = protocol_checks[k].protocol_number
        /\ During(alerts[a].created_at, k)}

\* The send_alerts calls made for snapshot k.
NotificationsOf(k) ==
    {m \in DOMAIN outbox :
        /\ outbox[m].message[1] = "Protocol"
        /\ outbox[m].message[2] = protocol_checks[k].protocol_number
        /\ During(outbox[m].timestamp, k)}

\* Row k is the snapshot run_check_cycle has just saved and whose first /
\* second alert rule it has not evaluated yet.
FirstRulePending(k) == k = Len(protocol_checks) /\ pc = "status_change"
SecondRulePending(k) ==
    k = Len(protocol_checks) /\ pc \in {"status_change", "status_change_send", "deflection"}
\* Row k's alert decision is still under way (a rule or a send is pending).
DecisionPending(k) ==
    /\ k = Len(protocol_checks)
    /\ pc \in {"status_change", "status_change_send", "deflection", "deflection_send"}

\* The alert insert for snapshot k raised.
AlertInsertFailed(k) ==
    \E e \in store_errors :
        e.op = "save_alert" /\ e.check = protocol_checks[k].checked_at

\* The check that produced row k ran to the end of check_protocol's try block.
CheckSucceeded(k) == protocol_checks[k].checked_at \notin failed_checks

\* ------------------------------------------------------------------- C1
\* C1 (as claimed): for every successful check of a protocol that has an
\* earlier persisted snapshot, whatever that snapshot holds, changed is True
\* exactly when the page_source_hash of the most recent prior snapshot
\* differs from the hash of the newly observed page.
C1_ChangedIffHashDiffers ==
    \A k \in DOMAIN protocol_checks :
        (PriorRows(k) # {} /\ CheckSucceeded(k)) =>
            ((protocol_checks[k].changed = 1) <=>
                (protocol_checks[PriorRow(k)].page_source_hash
                    # protocol_checks[k].page_source_hash))

\* ------------------------------------------------------------------- C2
\* C2: the first snapshot persisted for a protocol has changed = False,
\* whatever the page and the classification, and no status_change alert is
\* persisted for it.
C2_FirstSnapshotNeverChanged ==
    \A k \in DOMAIN protocol_checks :
        PriorRows(k) = {} =>
            /\ protocol_checks[k].changed = 0
            /\ \A a \in AlertsOf(k) : alerts[a].alert_type # "status_change"

\* A protocol's first snapshot carries a classification and its alert
\* decision is over: the deflection alert is there, no status_change alert.
C2_Witness ==
    \E k \in DOMAIN protocol_checks :
        /\ PriorRows(k) = {}
        /\ protocol_checks[k].deflection_type = "forwarded"
        /\ protocol_checks[k].page_source_hash # None
        /\ ~DecisionPending(k)
        /\ \E a \in AlertsOf(k) : alerts[a].alert_type = "deflection"

\* ------------------------------------------------------------------- C3
\* The one alert of a changed snapshot: a status_change alert whose severity
\* is the classification's severity, INFO without a classification.
IsStatusChangeAlertOf(a, k) ==
    /\ alerts[a].alert_type = "status_change"
    /\ alerts[a].severity =
          (IF protocol_checks[k].deflection_severity # None
           THEN protocol_checks[k].deflection_severity ELSE "INFO")

IsDeflectionAlertOf(a, k) ==
    /\ alerts[a].alert_type = "deflection"
    /\ alerts[a].severity = protocol_checks[k].deflection_severity

C5_NoAlertWithoutChangeOrDeflection ==
    \A k \in DOMAIN protocol_checks :
        (protocol_checks[k].changed = 0 /\ protocol_checks[k].deflection_type = None) =>
            AlertsOf(k) = {} /\ NotificationsOf(k) = {}

\* An unchanged, unclassified snapshot of an observed page whose alert
\* decision is over, in a run that has alerted on another snapshot.
C5_Witness ==
    \E k \in DOMAIN protocol_checks :
        /\ protocol_checks[k].changed = 0
        /\ protocol_checks[k].deflection_type = None
        /\ protocol_checks[k].page_source_hash # None
        /\ ~DecisionPending(k)
        /\ alerts # <<>>

\* ------------------------------------------------------------------- C6
\* The patterns of the table one of whose normalized keywords, Greek or
\* English, is a substring of the normalized text.
MatchingPatterns(t, tbl) ==
    {i \in DOMAIN tbl :
        \E kw \in Range(tbl[i].keywords_el) \cup Range(tbl[i].keywords_en) :
            Contains(norm(kw), norm(t))}

Classification(tbl, i) == <<tbl[i].name, tbl[i].severity, tbl[i].description>>

Earliest(S) == CHOOSE i \in S : \A j \in S : i <= j

\* C6: analyze_deflection returns the first pattern in DEFLECTION_PATTERNS
\* order one of whose normalized keywords is a substring of the normalized
\* text, with that pattern's own severity and description, also when the
\* text holds keywords of several patterns.
C6_FirstPatternInTableOrder ==
    (result # <<>> /\ table = DEFLECTION_PATTERNS) =>
        LET matching == MatchingPatterns(text, table)
        IN  IF matching = {} THEN result = NoClassification
            ELSE result = Classification(table, Earliest(matching))

\* A text holding keywords of two patterns, classified as the earlier one.
C6_Witness ==
    /\ table = DEFLECTION_PATTERNS
    /\ Cardinality(MatchingPatterns(text, table)) >= 2
    /\ result = Classification(table, Earliest(MatchingPatterns(text, table)))

\* ------------------------------------------------------------------- C7
SeverityRank(severity) ==
    CASE severity = "CRITICAL" -> 4
      [] severity = "HIGH" -> 3
      [] severity = "WATCH" -> 2
      [] severity = "INFO" -> 1
      [] OTHER -> 0

\* C7 (as claimed): under the shipped table, for every text matching two or
\* more patterns, the severity analyze_deflection returns is at least the
\* severity of every pattern the text matches.
C7_ReturnedSeverityIsHighest ==
    (result # <<>> /\ table = DEFLECTION_PATTERNS) =>
        \A i \in MatchingPatterns(text, table) :
            SeverityRank(result[2]) >= SeverityRank(table[i].severity)

\* ------------------------------------------------------------------- C8
\* Pattern i's keywords that do not normalize to the empty string.
NonEmptyKeywords(tbl, i) ==
    {kw \in Range(tbl[i].keywords_el) \cup Range(tbl[i].keywords_en) :
        norm(kw) # <<>>}

HasEmptyKeyword(tbl, i) ==
    \E kw \in Range(tbl[i].keywords_el) \cup Range(tbl[i].keywords_en) :
        norm(kw) = <<>>

\* C8: a pattern holding a keyword that normalizes to the empty string is
\* not returned for a text that contains none of the pattern's non-empty
\* normalized keywords.
C8_EmptyKeywordIsSkipped ==
    result # <<>> =>
        \A i \in DOMAIN table :
            (/\ HasEmptyKeyword(table, i)
             /\ \A kw \in NonEmptyKeywords(table, i) :
                   ~Contains(norm(kw), norm(text))) =>
                result[1] # table[i].name

\* The table's first pattern holds keywords that normalize to the empty
\* string, the text is not empty and holds no keyword of any pattern: the
\* classifier has returned no classification.
C8_Witness ==
    /\ HasEmptyKeyword(table, 1)
    /\ text # <<>>
    /\ \A i \in DOMAIN table : \A kw \in NonEmptyKeywords(table, i) :
          ~Contains(norm(kw), norm(text))
    /\ result = NoClassification

\* ------------------------------------------------------------------- C9
\* C9: analyze_deflection is total: applied to any text, the empty one
\* included, it yields a value, which is either a pattern of the table or
\* the triple (None, None, None), and it returns the triple whenever the
\* text contains no (non-empty) normalized keyword of any pattern.
C9_TotalAndNoneWithoutMatch ==
    /\ LET r == analyze_deflection(text, table)
       IN  \/ r = NoClassification
           \/ \E i \in DOMAIN table : r = Classification(table, i)
    /\ result # <<>> =>
          /\ result = analyze_deflection(text, table)
          /\ (\A i \in DOMAIN table : \A kw \in NonEmptyKeywords(table, i) :
                 ~Contains(norm(kw), norm(text)))
                => result = NoClassification

\* The empty text has been classified: no classification.
C9_Witness == text = <<>> /\ result = NoClassification

\* ------------------------------------------------------------------ C10
\* C10: protocol_checks is append-only: every step leaves the existing rows
\* as they are, the table changes only by _save_check appending the row of
\* the status just checked, and every _save_check that returns appends
\* exactly one row, so a protocol's rows are its saved snapshots in
\* insertion order.
C10_AppendOnly ==
    [][/\ Len(protocol_checks') >= Len(protocol_checks)
       /\ SubSeq(protocol_checks', 1, Len(protocol_checks)) = protocol_checks
       /\ protocol_checks' # protocol_checks =>
             /\ pc = "save_check"
             /\ protocol_checks' = Append(protocol_checks, check_row(status))
       /\ (pc = "save_check" /\ pc' = "status_change") =>
             Len(protocol_checks') = Len(protocol_checks) + 1]_vars

\* A protocol has two snapshots, the later one saved after the earlier.
C10_Witness ==
    \E k \in DOMAIN protocol_checks :
        /\ PriorRows(k) # {}
        /\ protocol_checks[PriorRow(k)].checked_at < protocol_checks[k].checked_at

\* ------------------------------------------------- reading the run ledger
\* The instant at which run r's cycle was over at the latest: its
\* completed_at, or the start of the next run, or the present.
RunEnd(r) ==
    IF monitor_runs[r].status = "completed" THEN monitor_runs[r].completed_at
    ELSE IF r < Len(monitor_runs) THEN monitor_runs[r + 1].started_at
    ELSE now + 1

\* The snapshots appended during run r's cycle, and the alert rows.
ChecksOfRun(r) ==
    {k \in DOMAIN protocol_checks :
        /\ monitor_runs[r].started_at < protocol_checks[k].checked_at
        /\ protocol_checks[k].checked_at < RunEnd(r)}

AlertsOfRun(r) ==
    {a \in DOMAIN alerts :
        /\ monitor_runs[r].started_at < alerts[a].created_at
        /\ alerts[a].created_at < RunEnd(r)}

\* The protocols of a set of snapshots, in the order of their rows.
RECURSIVE ProtocolsInOrder(_, _)
ProtocolsInOrder(rows, k) ==
    IF k > Len(protocol_checks) THEN <<>>
    ELSE IF k \in rows
         THEN <<protocol_checks[k].protocol_number>>
                 \o ProtocolsInOrder(rows, k + 1)
         ELSE ProtocolsInOrder(rows, k + 1)

Completed(r) == monitor_runs[r].status = "completed"

\* ------------------------------------------------------------------ C11
\* C11: the alert row of a notification is in the alerts table, committed,
\* before send_alerts is called for it; whatever the transports do (deliver
\* or fail), the call leaves the alerts table as it is and the cycle goes on
\* with the statement after the call; no step ever removes or rewrites an
\* alert row.
C11_PersistedBeforeTransport ==
    [][/\ Len(alerts') >= Len(alerts)
       /\ SubSeq(alerts', 1, Len(alerts)) = alerts
       /\ (/\ Len(outbox') = Len(outbox) + 1
           /\ outbox'[Len(outbox')].message[1] = "Protocol") =>
             /\ alerts' = alerts
             /\ Len(alerts) >= 1
             /\ alerts[Len(alerts)].message = outbox'[Len(outbox')].message
             /\ alerts[Len(alerts)].severity = outbox'[Len(outbox')].severity
             /\ alerts[Len(alerts)].protocol_number = status.protocol_number
             /\ alerts[Len(alerts)].created_at < outbox'[Len(outbox')].timestamp
             /\ During(alerts[Len(alerts)].created_at, Len(protocol_checks))
             /\ transport' \in {"delivered", "failed"}
             /\ alerts_count' = alerts_count + 1
             /\ pc' = IF pc = "status_change_send" THEN "deflection"
                      ELSE "tail"]_vars

\* A transport has failed for the notification of an alert whose row is in
\* the table, and the cycle stands at the statement after the call.
C11_Witness ==
    /\ transport = "failed"
    /\ pc \in {"deflection", "tail"}
    /\ Len(alerts) >= 1 /\ Len(outbox) >= 1
    /\ alerts[Len(alerts)].message = outbox[Len(outbox)].message
    /\ alerts[Len(alerts)].created_at < outbox[Len(outbox)].timestamp

\* ------------------------------------------------------------------ C12
\* C12: a cycle that ran to its end without a shutdown signal (and hence
\* without a store failure) appended exactly one snapshot per protocol of
\* TRACKED_PROTOCOLS, in configuration order, however many checks failed.
C12_OneSnapshotPerProtocol ==
    \A r \in DOMAIN monitor_runs :
        (Completed(r) /\ running) =>
            ProtocolsInOrder(ChecksOfRun(r), 1) = TRACKED_PROTOCOLS

\* A cycle without a signal in which every check failed has been completed.
C12_Witness ==
    /\ running
    /\ \E r \in DOMAIN monitor_runs :
          /\ Completed(r)
          /\ Cardinality(ChecksOfRun(r)) = Len(TRACKED_PROTOCOLS)
          /\ \A k \in ChecksOfRun(r) : ~CheckSucceeded(k)

\* ------------------------------------------------------------------ C13
\* C13 (as claimed): the snapshot of a failed check (status_text starting
\* with "ERROR:") carries no classification and changed = False, wherever
\* the failure occurred, and no alert is emitted for it.
C13_ErrorSnapshotIsBare ==
    \A k \in DOMAIN protocol_checks :
        (~CheckSucceeded(k) /\ starts_with_error(protocol_checks[k].status_text)) =>
            /\ protocol_checks[k].deflection_type = None
            /\ protocol_checks[k].deflection_severity = None
            /\ protocol_checks[k].changed = 0
            /\ AlertsOf(k) = {}

\* ------------------------------------------------------------------ C14
\* C14: after a store write of run_check_cycle has raised (the snapshot
\* insert, an alert insert or the final update), the run's row keeps status
\* 'running' and a NULL completed_at for ever, and the cycle appends no
\* further snapshot or alert.
C14_FailedRunStaysRunning ==
    \A e \in store_errors :
        e.run # 0 =>
            /\ monitor_runs[e.run].status = "running"
            /\ monitor_runs[e.run].completed_at = None
            /\ \A k \in ChecksOfRun(e.run) : protocol_checks[k].checked_at < e.at
            /\ \A a \in AlertsOfRun(e.run) : alerts[a].created_at < e.at

\* Each kind of write has raised in some cycle after its run was inserted,
\* and the monitor has gone on to a later cycle or to its shutdown.
C14_Witness ==
    /\ \E e \in store_errors : e.run # 0 /\ e.op = "update_run"
    /\ \E e \in store_errors : e.run # 0 /\ e.op \in {"save_check", "save_alert"}
    /\ pc \in {"for", "done"}

\* ------------------------------------------------------------------ C15
\* C15: a run with status 'completed' has protocols_checked equal to the
\* number of snapshots appended during its cycle and alerts_generated equal
\* to the number of alert rows appended during it.
C15_CompletedRunCounts ==
    \A r \in DOMAIN monitor_runs :
        Completed(r) =>
            /\ monitor_runs[r].protocols_checked = Cardinality(ChecksOfRun(r))
            /\ monitor_runs[r].alerts_generated = Cardinality(AlertsOfRun(r))

\* One completed cycle in which every check failed, and one completed cycle
\* cut short by a signal after it had generated an alert.
C15_Witness ==
    /\ \E r \in DOMAIN monitor_runs :
          /\ Completed(r)
          /\ monitor_runs[r].protocols_checked = Len(TRACKED_PROTOCOLS)
          /\ \A k \in ChecksOfRun(r) : ~CheckSucceeded(k)
    /\ \E r \in DOMAIN monitor_runs :
          /\ Completed(r)
          /\ monitor_runs[r].protocols_checked < Len(TRACKED_PROTOCOLS)
          /\ monitor_runs[r].alerts_generated >= 1

\* ------------------------------------------------------------------ C16
\* C16 (as claimed): the errors count of a completed run is the number of
\* checks of its cycle that raised inside check_protocol.
C16_ErrorsCountsFailedChecks ==
    \A r \in DOMAIN monitor_runs :
        Completed(r) =>
            monitor_runs[r].errors =
                Cardinality({k \in ChecksOfRun(r) : ~CheckSucceeded(k)})

\* ------------------------------------------------------------------ C17
\* The positions of run_check_cycle between the return of check_protocol
\* and the end of the loop body.
InProtocol ==
    {"save_check", "status_change", "status_change_send", "deflection",
     "deflection_send", "tail"}

\* A check is started, and a cycle is started, only while the flag is set.
FlagTested ==
    /\ (pc = "for" /\ pc' = "save_check") => running
    /\ (pc = "while" /\ pc' = "insert_run") => running

\* The loop body ends with the snapshot of the status saved.
BodyCompleted ==
    (pc = "tail" /\ pc' = "for") =>
        /\ Len(protocol_checks) >= 1
        /\ protocol_checks[Len(protocol_checks)] = check_row(status)

C19_FingerprintOfFullSource ==
    \A k \in DOMAIN protocol_checks :
        (/\ PriorRows(k) # {}
         /\ CheckSucceeded(k)
         /\ CheckSucceeded(PriorRow(k))
         /\ protocol_checks[PriorRow(k)].status_text = protocol_checks[k].status_text
         /\ protocol_checks[PriorRow(k)].raw_html_length
               # protocol_checks[k].raw_html_length) =>
            protocol_checks[k].changed = 1

C19_Witness ==
    \E k \in DOMAIN protocol_checks :
        /\ PriorRows(k) # {}
        /\ CheckSucceeded(k)
        /\ CheckSucceeded(PriorRow(k))
        /\ protocol_checks[PriorRow(k)].status_text = protocol_checks[k].status_text
        /\ protocol_checks[PriorRow(k)].raw_html_length
              # protocol_checks[k].raw_html_length
        /\ protocol_checks[k].changed = 1

\* ------------------------------------------------------------------ C18
\* The rows of protocol p in a table, in the order they were appended.
RowsOf(rows, p) == SelectSeq(rows, LAMBDA row : row.protocol_number = p)

\* C18 (as claimed): for every sequence of checks, the snapshots of a
\* protocol are ordered by checked_at as they were appended, so
\* _get_previous_status returns the fingerprint of the snapshot appended
\* last for the protocol.
C18_LatestIsLastAppended ==
    \A p \in {TRACKED_PROTOCOLS[i] : i \in DOMAIN TRACKED_PROTOCOLS} :
        LET mine == RowsOf(ledger, p)
        IN  /\ \A i, j \in DOMAIN mine :
                  i < j => mine[i].checked_at < mine[j].checked_at
            /\ mine # <<>> =>
                  get_previous_status(ledger, p) = mine[Len(mine)].page_source_hash

\* ------------------------------------------------------------------ C20
\* The two executions agree on the snapshots of protocol p persisted before
\* its latest check and on what that check observed.
AgreeOn(p) ==
    LET mine == RowsOf(ledger, p)
        theirs == RowsOf(ledger2, p)
    IN  /\ mine # <<>>
        /\ Len(mine) = Len(theirs)
        /\ SubSeq(mine, 1, Len(mine) - 1) = SubSeq(theirs, 1, Len(theirs) - 1)
        /\ mine[Len(mine)].page_source_hash = theirs[Len(theirs)].page_source_hash
        /\ mine[Len(mine)].status_text = theirs[Len(theirs)].status_text
        /\ mine[Len(mine)].checked_at = theirs[Len(theirs)].checked_at

\* C20: two executions that agree on protocol p's persisted snapshots and
\* on the newly observed content of p compute the same changed flag for p,
\* however they differ in the snapshots of the other protocols.
C20_ChangedDependsOnOwnHistory ==
    \A p \in {TRACKED_PROTOCOLS[i] : i \in DOMAIN TRACKED_PROTOCOLS} :
        AgreeOn(p) =>
            RowsOf(ledger, p)[Len(RowsOf(ledger, p))].changed
                = RowsOf(ledger2, p)[Len(RowsOf(ledger2, p))].changed

\* The executions agree on a protocol whose latest snapshot is changed, and
\* the second holds a snapshot of another protocol that the first does not
\* hold, taken later than the protocol's baseline and with another
\* fingerprint.
C20_Witness ==
    \E p \in {TRACKED_PROTOCOLS[i] : i \in DOMAIN TRACKED_PROTOCOLS} :
        /\ AgreeOn(p)
        /\ Len(RowsOf(ledger, p)) = 2
        /\ RowsOf(ledger, p)[2].changed = 1
        /\ RowsOf(ledger2, p)[2].changed = 1
        /\ \E k \in DOMAIN ledger2 :
              /\ ledger2[k].protocol_number # p
              /\ ledger2[k].checked_at > RowsOf(ledger, p)[1].checked_at
              /\ ledger2[k].checked_at < RowsOf(ledger, p)[2].checked_at
              /\ ledger2[k].page_source_hash = RowsOf(ledger, p)[2].page_source_hash
              /\ \A j \in DOMAIN ledger : ledger[j].protocol_number = p

\* ------------------------------------------------------------------ C21
\* The code points that spell the same letter as c, in either case, with or
\* without its accent.
SameLetter(c) ==
    CASE c \in {"f", "F"} -> {"f", "F"}
      [] c \in {"alpha", "alpha_tonos", "ALPHA_TONOS"} ->
            {"alpha", "alpha_tonos", "ALPHA_TONOS"}
      [] c \in {"epsilon", "epsilon_tonos"} -> {"epsilon", "epsilon_tonos"}
      [] c \in {"iota", "iota_tonos"} -> {"iota", "iota_tonos"}
      [] OTHER -> {c}

\* The texts that differ from t in the case or the accent of one letter, or
\* by one more combining accent.
Respelled(t) ==
    UNION {{[t EXCEPT ![i] = c] : c \in SameLetter(t[i])} : i \in DOMAIN t}
        \cup {SubSeq(t, 1, i) \o <<"ACUTE">> \o SubSeq(t, i + 1, Len(t)) :
                 i \in 0..Len(t)}

\* The table with every keyword replaced by its normal form.
Normalized(tbl) ==
    [i \in DOMAIN tbl |->
        [tbl[i] EXCEPT
            !.keywords_el =
                [j \in DOMAIN tbl[i].keywords_el |-> norm(tbl[i].keywords_el[j])],
            !.keywords_en =
                [j \in DOMAIN tbl[i].keywords_en |-> norm(tbl[i].keywords_en[j])]]]

MaxSmtpRetries == 3
MaxRetryDelay == 2

\* A key that a dict does not hold.
Absent == "<absent>"

\* dict.get(key, default)
get(d, key, default) == IF d[key] = Absent THEN default ELSE d[key]

\* self.MONITORED_PROTOCOLS: the keys and each protocol's default severity.
MONITORED_PROTOCOLS ==
    [p \in {"214142", "ND0113", "10690", "5534", "051340"} |->
        [severity |-> CASE p = "214142" -> "CRITICAL"
                        [] p = "ND0113" -> "HIGH"
                        [] p = "10690" -> "HIGH"
                        [] p = "5534" -> "HIGH"
                        [] p = "051340" -> "CRITICAL"]]

\* self.RECIPIENT_GROUPS
RECIPIENT_GROUPS ==
    [TIER_1_ENFORCEMENT |->
        <<"kataggelies@sdoe.gr", "sdoe@aade.gr", "kefode@aade.gr">>,
     TIER_2_OVERSIGHT |->
        <<"complaints@anticorruption.gr", "info@anticorruption.gr",
          "epopteiaota@attica.gr", "protokollo@attica.gr">>,
     TIER_3_INTERNATIONAL |->
        <<"Ana_Wolken@slotkin.senate.gov", "info@eppo.europa.eu">>,
     RECORD_KEEPING |-> <<RECORD_EMAIL>>]

\* The values of the environment variable RECORD_EMAIL: unset (the default
\* of the source), or set to an address that another group holds as well.
RecordEmails ==
    {"stamatinakyprianou@gmail.com", "info@anticorruption.gr",
     "info@eppo.europa.eu"}

\* list(set(l)): the members of l, each once, in an order that the set's
\* hashing decides: any order.
RECURSIVE orders(_)
orders(S) ==
    IF S = {} THEN {<<>>}
    ELSE UNION {{<<x>> \o s : s \in orders(S \ {x})} : x \in S}

list_set(l) == orders({l[i] : i \in DOMAIN l})

\* _get_recipients: cc_list before the return.
cc_list(sev) ==
    (IF sev \in {"CRITICAL", "HIGH"}
        THEN RECIPIENT_GROUPS.TIER_2_OVERSIGHT
                \o RECIPIENT_GROUPS.TIER_3_INTERNATIONAL
     ELSE IF sev = "MEDIUM" THEN RECIPIENT_GROUPS.TIER_2_OVERSIGHT
     ELSE <<>>) \o RECIPIENT_GROUPS.RECORD_KEEPING

\* _get_recipients returning cc_list as it is.
get_recipients_no_dedup(sev) ==
    {[to |-> RECIPIENT_GROUPS.TIER_1_ENFORCEMENT, cc |-> cc_list(sev)]}

\* _get_recipients(severity): the values it may return.
get_recipients(sev) ==
    {[to |-> RECIPIENT_GROUPS.TIER_1_ENFORCEMENT, cc |-> cc] :
        cc \in list_set(cc_list(sev))}

\* _build_subject: the severity label and the protocol number of the
\* subject line.
build_subject(protocol_num, sev) ==
    <<IF sev \in {"CRITICAL", "HIGH", "MEDIUM", "LOW"} THEN sev ELSE "ALERT",
      protocol_num>>

\* process_zeus_alert using the protocol's default severity whatever the
\* alert says.
process_zeus_alert_default_severity(alert) ==
    LET protocol_num == get(alert, "protocol_num", "")
    IN  IF protocol_num \notin DOMAIN MONITORED_PROTOCOLS THEN {None}
        ELSE LET sev == MONITORED_PROTOCOLS[protocol_num].severity
             IN  {[to |-> r.to, cc |-> r.cc,
                   subject |-> build_subject(protocol_num, sev),
                   protocol_num |-> protocol_num, severity |-> sev] :
                     r \in get_recipients(sev)}

\* process_zeus_alert(alert_data): the values it may return.  The bodies
\* and the attachment list do not depend on the severity and are left out.
process_zeus_alert(alert) ==
    LET protocol_num == get(alert, "protocol_num", "")
    IN  IF protocol_num \notin DOMAIN MONITORED_PROTOCOLS THEN {None}
        ELSE LET protocol_info == MONITORED_PROTOCOLS[protocol_num]
                 sev == get(alert, "severity", protocol_info.severity)
             IN  {[to |-> r.to, cc |-> r.cc,
                   subject |-> build_subject(protocol_num, sev),
                   protocol_num |-> protocol_num, severity |-> sev] :
                     r \in get_recipients(sev)}

\* ---------------------------------------------------------------- SpecRoute
\* The severities handed to _get_recipients: the four the source names, one
\* in lower case and None.
EmailSeverities == {"CRITICAL", "HIGH", "MEDIUM", "LOW", "critical", None}

\* The alerts handed to process_zeus_alert: protocol_num missing, not
\* monitored or monitored; severity missing or given.
Alerts ==
    [protocol_num : DOMAIN MONITORED_PROTOCOLS \cup {"504", Absent},
     severity : EmailSeverities \cup {Absent}]

InitRoute ==
    /\ MonitorInit /\ portal = Pages /\ ClassifyIdle /\ StoreIdle
    /\ RECORD_EMAIL \in RecordEmails
    /\ smtp_max_retries = 0
    /\ smtp_retry_base_delay = 0
    /\ epc = "idle"
    /\ alert_data = None
    /\ severity_in = None
    /\ recipients = None
    /\ email_config = None
    /\ dry_run = TRUE
    /\ attempt = 0
    /\ smtp_log = <<>>
    /\ sleeps = <<>>
    /\ returned = None

\* recipients = self._get_recipients(severity)
call_get_recipients ==
    /\ epc = "idle"
    /\ \E sev \in EmailSeverities : \E r \in get_recipients(sev) :
          /\ severity_in' = sev
          /\ recipients' = r
    /\ epc' = "routed"
    /\ UNCHANGED <<RECORD_EMAIL, smtp_max_retries, smtp_retry_base_delay,
                   alert_data, email_config, dry_run, attempt, smtp_log,
                   sleeps, returned, monitor_vars, portal, classify_vars,
                   store_vars>>

\* email_config = self.process_zeus_alert(alert_data)
call_process_zeus_alert ==
    /\ epc = "idle"
    /\ \E alert \in Alerts : \E c \in process_zeus_alert(alert) :
          /\ alert_data' = alert
          /\ email_config' = c
    /\ epc' = "processed"
    /\ UNCHANGED <<RECORD_EMAIL, smtp_max_retries, smtp_retry_base_delay,
                   severity_in, recipients, dry_run, attempt, smtp_log, sleeps,
                   returned, monitor_vars, portal, classify_vars, store_vars>>

NextRoute == call_get_recipients \/ call_process_zeus_alert

SpecRoute == InitRoute /\ [][NextRoute]_vars

\* ------------------------------------------------------------------ C24
\* No address occurs twice in the list.
NoRepeat(l) == \A i, j \in DOMAIN l : l[i] = l[j] => i = j

\* C24: for every severity, 'to' is exactly TIER_1_ENFORCEMENT and 'cc'
\* holds RECORD_KEEPING; 'cc' holds every TIER_2_OVERSIGHT address exactly
\* when the severity is CRITICAL, HIGH or MEDIUM and every
\* TIER_3_INTERNATIONAL address exactly when it is CRITICAL or HIGH; 'cc'
\* holds no address twice.
C24_RecipientsBySeverity ==
    epc = "routed" =>
        /\ recipients.to = RECIPIENT_GROUPS.TIER_1_ENFORCEMENT
        /\ Range(RECIPIENT_GROUPS.RECORD_KEEPING) \subseteq Range(recipients.cc)
        /\ (Range(RECIPIENT_GROUPS.TIER_2_OVERSIGHT) \subseteq Range(recipients.cc))
              <=> severity_in \in {"CRITICAL", "HIGH", "MEDIUM"}
        /\ (Range(RECIPIENT_GROUPS.TIER_3_INTERNATIONAL) \subseteq Range(recipients.cc))
              <=> severity_in \in {"CRITICAL", "HIGH"}
        /\ NoRepeat(recipients.cc)

\* A MEDIUM alert routed while RECORD_EMAIL is an address of
\* TIER_2_OVERSIGHT: the copy list holds the four oversight addresses once.
C24_Witness ==
    /\ epc = "routed"
    /\ severity_in = "MEDIUM"
    /\ RECORD_EMAIL \in Range(RECIPIENT_GROUPS.TIER_2_OVERSIGHT)
    /\ Len(recipients.cc) = Len(RECIPIENT_GROUPS.TIER_2_OVERSIGHT)

\* ------------------------------------------------------------------ C25
\* The addresses copied on an alert of the given severity.
CopiedFor(sev) ==
    Range(RECIPIENT_GROUPS.RECORD_KEEPING)
        \cup (IF sev \in {"CRITICAL", "HIGH", "MEDIUM"}
                 THEN Range(RECIPIENT_GROUPS.TIER_2_OVERSIGHT) ELSE {})
        \cup (IF sev \in {"CRITICAL", "HIGH"}
                 THEN Range(RECIPIENT_GROUPS.TIER_3_INTERNATIONAL) ELSE {})

\* C25: process_zeus_alert returns None for every alert whose protocol_num
\* is missing or not monitored; for a monitored protocol it returns an
\* email configuration whose severity is the alert's severity when given
\* and the protocol's configured default otherwise, with the recipients
\* routed for that same severity.
C25_ConfigForMonitoredOnly ==
    epc = "processed" =>
        IF \/ alert_data.protocol_num = Absent
           \/ alert_data.protocol_num \notin DOMAIN MONITORED_PROTOCOLS
        THEN email_config = None
        ELSE /\ email_config.protocol_num = alert_data.protocol_num
             /\ email_config.severity =
                   (IF alert_data.severity # Absent THEN alert_data.severity
                    ELSE MONITORED_PROTOCOLS[alert_data.protocol_num].severity)
             /\ email_config.to = RECIPIENT_GROUPS.TIER_1_ENFORCEMENT
             /\ Range(email_config.cc) = CopiedFor(email_config.severity)
             /\ NoRepeat(email_config.cc)

\* An alert on protocol 214142 (CRITICAL by default) that says MEDIUM has
\* been processed: the configuration is MEDIUM and is not copied to the
\* international tier.
C25_Witness ==
    /\ epc = "processed"
    /\ alert_data.protocol_num = "214142"
    /\ alert_data.severity = "MEDIUM"
    /\ email_config.severity = "MEDIUM"
    /\ ~(Range(RECIPIENT_GROUPS.TIER_3_INTERNATIONAL) \subseteq Range(email_config.cc))

\* ----------------------------------------------------------------- SpecSend
\* What one SMTP attempt (building the message, connecting, logging in,
\* sendmail) may do: succeed, raise SMTPAuthenticationError, raise another
\* exception.
SmtpOutcomes == {"sent", "auth_error", "error"}

\* An except clause that treats an authentication failure as any other.
except_clause_retries_auth(outcome) ==
    IF outcome = "sent" THEN "return True" ELSE "except Exception"

\* Where the try statement of send_email goes after an attempt.
except_clause(outcome) ==
    CASE outcome = "sent" -> "return True"
      [] outcome = "auth_error" -> "return False"
      [] OTHER -> "except Exception"

\* A delay that grows by the base delay with each attempt.
backoff_delay_linear(base, n) == base * n

\* delay = self.smtp_retry_base_delay * (2 ** (attempt - 1))
backoff_delay(base, n) == base * 2^(n - 1)

InitSend ==
    /\ MonitorInit /\ portal = Pages /\ ClassifyIdle /\ StoreIdle
    /\ RECORD_EMAIL = "stamatinakyprianou@gmail.com"
    /\ smtp_max_retries \in 0..MaxSmtpRetries
    /\ smtp_retry_base_delay \in 0..MaxRetryDelay
    /\ epc = "call"
    /\ alert_data = [protocol_num |-> "214142", severity |-> "LOW"]
    /\ severity_in = None
    /\ recipients = None
    /\ email_config \in process_zeus_alert(alert_data)
    /\ dry_run \in BOOLEAN
    /\ attempt = 0
    /\ smtp_log = <<>>
    /\ sleeps = <<>>
    /\ returned = None

\* send_email(email_config, dry_run): the dry run returns what
\* _dry_run_preview returns, True; otherwise the for loop starts.
send_email ==
    /\ epc = "call"
    /\ IF dry_run
          THEN /\ returned' = "True"
               /\ epc' = "returned"
               /\ UNCHANGED attempt
          ELSE /\ attempt' = 1
               /\ epc' = "for"
               /\ UNCHANGED returned
    /\ UNCHANGED <<RECORD_EMAIL, smtp_max_retries, smtp_retry_base_delay,
                   alert_data, severity_in, recipients, email_config, dry_run,
                   smtp_log, sleeps, monitor_vars, portal, classify_vars,
                   store_vars>>

\* One pass of the try block.
smtp_attempt ==
    /\ epc = "for"
    /\ attempt <= smtp_max_retries
    /\ \E outcome \in SmtpOutcomes :
          /\ smtp_log' = Append(smtp_log, outcome)
          /\ CASE except_clause(outcome) = "return True" ->
                    returned' = "True" /\ epc' = "returned"
               [] except_clause(outcome) = "return False" ->
                    returned' = "False" /\ epc' = "returned"
               [] OTHER ->
                    returned' = returned /\ epc' = "except"
    /\ UNCHANGED <<RECORD_EMAIL, smtp_max_retries, smtp_retry_base_delay,
                   alert_data, severity_in, recipients, email_config, dry_run,
                   attempt, sleeps, monitor_vars, portal, classify_vars,
                   store_vars>>

\* except Exception: the delay is computed and slept, then the loop goes on.
except_exception ==
    /\ epc = "except"
    /\ sleeps' = Append(sleeps, backoff_delay(smtp_retry_base_delay, attempt))
    /\ attempt' = attempt + 1
    /\ epc' = "for"
    /\ UNCHANGED <<RECORD_EMAIL, smtp_max_retries, smtp_retry_base_delay,
                   alert_data, severity_in, recipients, email_config, dry_run,
                   smtp_log, returned, monitor_vars, portal, classify_vars,
                   store_vars>>

\* The for loop is exhausted: "All %d SMTP attempts failed", return False.
for_exhausted ==
    /\ epc = "for"
    /\ attempt > smtp_max_retries
    /\ returned' = "False"
    /\ epc' = "returned"
    /\ UNCHANGED <<RECORD_EMAIL, smtp_max_retries, smtp_retry_base_delay,
                   alert_data, severity_in, recipients, email_config, dry_run,
                   attempt, smtp_log, sleeps, monitor_vars, portal,
                   classify_vars, store_vars>>

NextSend == send_email \/ smtp_attempt \/ except_exception \/ for_exhausted

SpecSend == InitSend /\ [][NextSend]_vars

\* Every blocking step of the call (the SMTP conversation, time.sleep)
\* returns: a step of send_email that can be taken is eventually taken.
SpecSendFair == SpecSend /\ WF_vars(NextSend)

\* ------------------------------------------------------------------ C22
\* C22: when an SMTP attempt of send_email(dry_run=False) fails with an
\* authentication error, on whichever attempt, send_email returns False at
\* once: that attempt is the last one and no backoff wait follows it.
C22_AuthFailureReturnsAtOnce ==
    \A k \in DOMAIN smtp_log :
        smtp_log[k] = "auth_error" =>
            /\ k = Len(smtp_log)
            /\ epc = "returned"
            /\ returned = "False"
            /\ Len(sleeps) = k - 1

\* The authentication failure came on a later attempt than the first.
C22_Witness ==
    /\ Len(smtp_log) >= 2
    /\ smtp_log[Len(smtp_log)] = "auth_error"
    /\ smtp_retry_base_delay > 0

\* ------------------------------------------------------------------ C23
\* The attempts made so far that failed otherwise than on authentication.
FailedAttempts == {k \in DOMAIN smtp_log : smtp_log[k] = "error"}

\* C23: send_email(dry_run=False) makes at most smtp_max_retries attempts,
\* returns True at the first successful attempt without attempting again,
\* returns False after smtp_max_retries failed attempts, waits
\* smtp_retry_base_delay * 2^(k-1) after failed attempt k, and always
\* terminates; send_email(dry_run=True) makes no SMTP attempt and returns
\* True.
C23_RetryBackoffTerminates ==
    /\ [](/\ Len(smtp_log) <= smtp_max_retries
          /\ \A k \in DOMAIN smtp_log :
                smtp_log[k] = "sent" =>
                    k = Len(smtp_log) /\ epc = "returned" /\ returned = "True"
          /\ (epc = "returned" /\ ~dry_run /\ returned = "True") =>
                smtp_log # <<>> /\ smtp_log[Len(smtp_log)] = "sent"
          /\ (Cardinality(FailedAttempts) = smtp_max_retries
                /\ epc = "returned" /\ ~dry_run) => returned = "False"
          /\ (epc = "returned" /\ ~dry_run /\ returned = "False") =>
                \/ Cardinality(FailedAttempts) = smtp_max_retries
                \/ smtp_log[Len(smtp_log)] = "auth_error"
          /\ \A k \in DOMAIN sleeps :
                sleeps[k] = smtp_retry_base_delay * 2^(k - 1)
          /\ Len(sleeps) =
                Cardinality(FailedAttempts) - (IF epc = "except" THEN 1 ELSE 0)
          /\ dry_run =>
                /\ smtp_log = <<>> /\ sleeps = <<>>
                /\ epc = "returned" => returned = "True")
    /\ <>(epc = "returned")

\* Every one of three attempts failed: three waits, then False.
C23_Witness ==
    /\ epc = "returned"
    /\ returned = "False"
    /\ smtp_max_retries = 3
    /\ Cardinality(FailedAttempts) = 3
    /\ Len(sleeps) = 3
    /\ smtp_retry_base_delay > 0

\* ------------------------------------------------------------------ C26
\* The calls of send_alerts with the given message.
Sent(message) == {i \in DOMAIN outbox : outbox[i].message = message}

\* C26 (as claimed): in every interleaving of login attempts and shutdown
\* signals, 'Zeus Monitor ONLINE' is sent only after a call of
\* _login_taxisnet has returned True.
C26_OnlineOnlyAfterLogin ==
    Sent(<<"Zeus Monitor ONLINE">>) # {} => logged_in

\* ------------------------------------------------------------------ C27
\* The rows of monitor_runs whose status is 'running'.
RunningRows == {r \in DOMAIN monitor_runs : monitor_runs[r].status = "running"}

\* C27 (as claimed): in every reachable state at most one row of
\* monitor_runs has status 'running', also after a cycle that ended with an
\* exception.
C27_AtMostOneRunningRow == Cardinality(RunningRows) <= 1

\* ------------------------------------------------------------------ C28
\* The most snapshots the bounded monitor persists.
MaxSnapshots == MaxCycles * Len(TRACKED_PROTOCOLS)

\* A status_change alert is persisted for the protocol of snapshot k.
StatusChangeAlerted(k) ==
    /\ k \in DOMAIN protocol_checks
    /\ \E a \in DOMAIN alerts :
          /\ alerts[a].alert_type = "status_change"
          /\ alerts[a].protocol_number = protocol_checks[k].protocol_number

\* C28 (as claimed): for every persisted snapshot with changed = True, a
\* status_change alert for the same protocol is eventually persisted, also
\* when the alert insert fails.
C28_ChangeEventuallyAlerted ==
    \A k \in 1..MaxSnapshots :
        (k \in DOMAIN protocol_checks /\ protocol_checks[k].changed = 1)
            ~> StatusChangeAlerted(k)

\* ------------------------------------------------------------------ C29
\* The calls of _login_taxisnet the login loop has made: each failed call
\* incremented retry_count, the successful one ended the loop.
LoginCalls == retry_count + (IF logged_in THEN 1 ELSE 0)

BeforeMonitoringLoop == pc \in {"create_driver", "login", "after_login"}

\* C29: start() calls _login_taxisnet at most MAX_RETRIES times before the
\* monitoring loop; when all MAX_RETRIES attempts have failed it sends
\* exactly one CRITICAL login-failure notification, calls shutdown and
\* returns without running any check cycle; a check cycle is started only
\* after a login attempt succeeded.
C29_LoginBoundedAndFailureExits ==
    /\ BeforeMonitoringLoop => LoginCalls <= MAX_RETRIES
    /\ (retry_count >= MAX_RETRIES /\ ~BeforeMonitoringLoop) =>
          /\ pc = "done"
          /\ ~logged_in
          /\ Cardinality(Sent(<<"Zeus Monitor FAILED to login">>)) = 1
          /\ \A i \in Sent(<<"Zeus Monitor FAILED to login">>) :
                outbox[i].severity = "CRITICAL"
          /\ Cardinality(Sent(<<"Zeus Monitor shutting down">>)) = 1
          /\ ~db_open
          /\ monitor_runs = <<>>
          /\ protocol_checks = <<>>
    /\ Sent(<<"Zeus Monitor FAILED to login">>) # {} =>
          retry_count >= MAX_RETRIES /\ ~logged_in
    /\ (monitor_runs # <<>>
          \/ pc \notin {"create_driver", "login", "after_login", "while",
                        "done", "raised"}) => logged_in

\* Every login attempt failed, with no signal: start() has returned after
\* the CRITICAL notification and shutdown.
C29_Witness ==
    /\ pc = "done"
    /\ running
    /\ retry_count = MAX_RETRIES
    /\ Sent(<<"Zeus Monitor FAILED to login">>) # {}

\* ------------------------------------------------------------------ C30
\* start() has returned, or an exception has left it.
Exited == pc \in {"done", "raised"}

ShutdownCalls == Cardinality(Sent(<<"Zeus Monitor shutting down">>))

\* C30 (as claimed): once a signal has cleared the running flag, start()
\* eventually leaves its loops and calls shutdown, when every blocking step
\* returns; shutdown is called exactly once per call of start(), on every
\* exit path.
C30_SignalLeadsToOneShutdown ==
    /\ [](ShutdownCalls <= 1)
    /\ [](Exited => ShutdownCalls = 1)
    /\ (~running ~> (Exited /\ ShutdownCalls = 1))

=============================================================================
